---- MODULE Spec2Model ----
(***************************************************************************)
(* Model of src/app.py (Cross-Culture Humor Mapper): the model-fallback    *)
(* loop smart_translate_humor and the "Translate Humor" button handler     *)
(* that calls it and saves the result.                                     *)
(*                                                                         *)
(* Strings whose content matters (the joke, the culture, the generated     *)
(* text) are sequences of one-character strings, so that len() and strip() *)
(* are computed.  A model identifier "vendor/name" is the sequence of its  *)
(* '/'-separated components, so that split('/')[-1] is computed.           *)
(***************************************************************************)
EXTENDS Integers, Sequences, FiniteSets, TLC

\* ------------------------------------------------------------------ bounds
\* Translate clicks are accepted while the store holds fewer rows than this.
MaxRecords == 1

\* --------------------------------------------------------------- constants
\* len(translated_text.strip()) > 10
MinLen == 10
\* time.sleep(2)
SleepSecs == 2

FREE_MODELS ==
  << <<"mistralai", "mistral-small-3.2-24b-instruct:free">>,
     <<"meta-llama", "llama-3-8b-instruct:free">>,
     <<"google", "gemma-7b-it:free">>,
     <<"nousresearch", "nous-hermes-2-mixtral-8x7b-dpo:free">>,
     <<"google", "gemma-2b-it:free">>,
     <<"meta-llama", "llama-2-13b-chat:free">>,
     <<"microsoft", "wizardlm-2-8x22b:free">>,
     <<"undi95", "toppy-m-7b:free">> >>

\* st.selectbox("Models to try", [1, 2, 3], index=2)
AttemptChoices == {1, 2, 3}

\* ----------------------------------------------------------------- helpers
Min(a, b) == IF a < b THEN a ELSE b

Rep(c, n) == [j \in 1..n |-> c]

\* characters removed by str.strip()
Whitespace == {" ", "\n"}

RECURSIVE lstrip(_)
lstrip(s) ==
  IF Len(s) > 0 /\ s[1] \in Whitespace THEN lstrip(Tail(s)) ELSE s

RECURSIVE rstrip(_)
rstrip(s) ==
  IF Len(s) > 0 /\ s[Len(s)] \in Whitespace
  THEN rstrip(SubSeq(s, 1, Len(s) - 1)) ELSE s

\* str.strip()
strip(s) == rstrip(lstrip(s))

\* Python values that may be None
None == [isNone |-> TRUE, val |-> <<>>]
Some(v) == [isNone |-> FALSE, val |-> v]
\* truth value of an Optional[str] / Optional[list]
Truthy(o) == ~o.isNone /\ Len(o.val) > 0

\* Truth value of a str: `not input_text` is `~StrTruthy(input_text)`
StrTruthy(s) == Len(s) > 0

\* model.split('/')[-1]
model_name(model) == model[Len(model)]

\* slice one element too long
ModelsSlice_Long(max_attempts) ==
  SubSeq(FREE_MODELS, 1, Min(max_attempts + 1, Len(FREE_MODELS)))

\* FREE_MODELS[:max_attempts]
ModelsSlice(max_attempts) ==
  SubSeq(FREE_MODELS, 1, Min(max_attempts, Len(FREE_MODELS)))

\* f"Attempt {i+1}: {model_name}" and f"Attempt {i+1}: {model_name} - <suffix>"
AttemptEntry(i, model, suffix) ==
  [n |-> i + 1, model_name |-> model_name(model), suffix |-> suffix]

\* ---------------------------------------------------- the inference API
\* What requests.post(...) followed by response.json() can produce.
\*   raise : "none", "Timeout" (requests.exceptions.Timeout) or
\*           "ConnectionError" (any other exception of the transport)
\*   json  : "invalid" (response.json() raises), "nochoices" (no "choices"
\*           key), "emptychoices" (data["choices"][0]... raises), "ok"
Resp(raise, status, json, content) ==
  [raise |-> raise, status |-> status, json |-> json, content |-> content]

Contents ==
  { Rep("x", MinLen),
    <<" ">> \o Rep("x", MinLen) \o <<" ">>,
    Rep("x", MinLen + 1),
    <<" ">> \o Rep("x", MinLen + 1) \o <<"\n">> }

Responses ==
  { Resp("Timeout", 0, "none", <<>>), Resp("ConnectionError", 0, "none", <<>>) }
  \cup { Resp("none", s, "none", <<>>) : s \in {429, 503, 500} }
  \cup { Resp("none", 200, j, <<>>) : j \in {"invalid", "nochoices", "emptychoices"} }
  \cup { Resp("none", 200, "ok", c) : c \in Contents }

\* length test without strip()
Acceptable_NoStrip(translated_text) == Len(translated_text) > MinLen

\* Validate we got a reasonable response
Acceptable(translated_text) == Len(strip(translated_text)) > MinLen

\* The exception the try block raises while handling r, or "none":
\* requests.post raises r.raise; response.json() raises on an invalid body;
\* data["choices"][0]["message"]["content"] raises on an empty choices list.
Raises(r) ==
  IF r.raise # "none" THEN r.raise
  ELSE IF r.status = 200 /\ r.json = "invalid" THEN "JSONDecodeError"
  ELSE IF r.status = 200 /\ r.json = "emptychoices" THEN "IndexError"
  ELSE "none"

\* `except Exception` placed before the Timeout clause
ExceptClause_GenericFirst(exc) == "Exception"

\* second clause narrowed to `except requests.exceptions.RequestException`
ExceptClause_Narrow(exc) ==
  IF exc = "Timeout" THEN "Timeout"
  ELSE IF exc = "ConnectionError" THEN "Exception"
  ELSE "uncaught"

\* The except clause that catches exc: `except requests.exceptions.Timeout`
\* first, then `except Exception`, which catches every other one.
ExceptClause(exc) ==
  IF exc = "Timeout" THEN "Timeout" ELSE "Exception"

\* The path one loop iteration takes through the try block for response r.
Classify(r) ==
  IF Raises(r) # "none"
  THEN IF ExceptClause(Raises(r)) = "Timeout" THEN "timeout"
       ELSE IF ExceptClause(Raises(r)) = "Exception" THEN "error"
       ELSE "uncaught"
  ELSE IF r.status = 200
       THEN IF r.json = "nochoices" THEN "nochoices"
            ELSE IF Acceptable(r.content) THEN "accept" ELSE "empty"
       ELSE "http"

\* error_msg shown for a non-200 status
error_msg(status) ==
  IF status = 429 THEN "Rate limited"
  ELSE IF status = 503 THEN "Service overloaded"
  ELSE "HTTP"

\* "Brief pause before next attempt": reached only when the try block runs
\* to its end, i.e. not after a return and not after a raised exception.
ReachesPause(kind) == kind \in {"empty", "nochoices", "http"}

PausesAfter(kind, i, max_attempts) ==
  ReachesPause(kind) /\ i < max_attempts - 1

\* ------------------------------------------------------------------ state
VARIABLES
  pc,               \* "idle" | "loop" | "post" | "returned" | "crashed"
  input_text,       \* st.text_area value of the current run
  target_culture,   \* st.text_input value of the current run
  max_attempts,     \* st.selectbox value of the current run
  save_translation, \* st.checkbox value of the current run
  i,                \* loop index of smart_translate_humor (0-based)
  attempts,         \* the attempts list of smart_translate_humor
  contacted,        \* models requests.post was called for, in order
  outcomes,         \* the response each contacted model gave, in order
  pauses,           \* loop indices after which time.sleep ran
  warnings,         \* st.warning texts of the failed attempts, in order
  result,           \* (translated_text, model_used, attempts) once returned
  ui,               \* what the current run shows: "none" | "fill_in_both" |
                    \* "spinner" | "adapted" | "all_failed"
  db                \* rows of the humor_translations table

vars == <<pc, input_text, target_culture, max_attempts, save_translation, i,
          attempts, contacted, outcomes, pauses, warnings, result, ui, db>>

callvars == <<i, attempts, contacted, outcomes, pauses, warnings>>
inputvars == <<input_text, target_culture, max_attempts, save_translation>>

\* values typed into the joke text area and into the culture field
Texts == { <<>>, <<" ">>, <<"j">> }
Cultures == { <<>>, <<"c">> }

NoResult == [translated_text |-> None, model_used |-> None, attempts |-> <<>>]

Init ==
  /\ pc = "idle"
  /\ input_text = <<>>
  /\ target_culture = <<>>
  /\ max_attempts = 3
  /\ save_translation = TRUE
  /\ i = 0
  /\ attempts = <<>>
  /\ contacted = <<>>
  /\ outcomes = <<>>
  /\ pauses = <<>>
  /\ warnings = <<>>
  /\ result = NoResult
  /\ ui = "none"
  /\ db = <<>>

\* ---------------------------------------------------------------- actions
\* The caller's validation: `if not input_text or not target_culture`
InputsMissing(text, culture) == ~StrTruthy(text) \/ ~StrTruthy(culture)

\* A click on "Translate Humor": the script reruns with the widget values.
Click(text, culture, k, save) ==
  /\ pc = "idle"
  /\ Len(db) < MaxRecords
  /\ input_text' = text
  /\ target_culture' = culture
  /\ max_attempts' = k
  /\ save_translation' = save
  /\ i' = 0
  /\ attempts' = <<>>
  /\ contacted' = <<>>
  /\ outcomes' = <<>>
  /\ pauses' = <<>>
  /\ warnings' = <<>>
  /\ result' = NoResult
  /\ UNCHANGED db
  /\ IF InputsMissing(text, culture)
     THEN /\ ui' = "fill_in_both"
          /\ pc' = "idle"
     ELSE /\ ui' = "spinner"
          /\ pc' = "loop"

ClickWarn ==
  \E text \in Texts, culture \in Cultures, k \in AttemptChoices, save \in BOOLEAN :
    /\ InputsMissing(text, culture)
    /\ Click(text, culture, k, save)

ClickTranslate ==
  \E text \in Texts, culture \in Cultures, k \in AttemptChoices, save \in BOOLEAN :
    /\ ~InputsMissing(text, culture)
    /\ Click(text, culture, k, save)

\* loop head without the attempts.append
LoopNext_NoAppend ==
  /\ pc = "loop"
  /\ i < Len(ModelsSlice(max_attempts))
  /\ pc' = "post"
  /\ UNCHANGED <<inputvars, callvars, result, ui, db>>

\* for i, model in enumerate(FREE_MODELS[:max_attempts]): next element,
\* model_name = ..., attempts.append(f"Attempt {i+1}: {model_name}")
LoopNext ==
  /\ pc = "loop"
  /\ i < Len(ModelsSlice(max_attempts))
  /\ attempts' = Append(attempts, AttemptEntry(i, ModelsSlice(max_attempts)[i + 1], ""))
  /\ pc' = "post"
  /\ UNCHANGED <<inputvars, i, contacted, outcomes, pauses, warnings, result, ui, db>>

\* the loop is exhausted: return None, None, attempts
LoopExit ==
  /\ pc = "loop"
  /\ i >= Len(ModelsSlice(max_attempts))
  /\ result' = [translated_text |-> None, model_used |-> None, attempts |-> attempts]
  /\ pc' = "returned"
  /\ UNCHANGED <<inputvars, callvars, ui, db>>

\* requests.post for the current model, answered by r
Sent(r) ==
  /\ pc = "post"
  /\ contacted' = Append(contacted, ModelsSlice(max_attempts)[i + 1])
  /\ outcomes' = Append(outcomes, r)

\* acceptable content recorded, but the loop goes on instead of returning
Accept_NoReturn ==
  \E r \in Responses :
    /\ Classify(r) = "accept"
    /\ Sent(r)
    /\ result' = [translated_text |-> Some(r.content),
                  model_used |-> Some(ModelsSlice(max_attempts)[i + 1]),
                  attempts |-> attempts]
    /\ i' = i + 1
    /\ pc' = "loop"
    /\ UNCHANGED <<inputvars, attempts, pauses, warnings, ui, db>>

\* 200 with acceptable content: return translated_text, model, attempts
Accept ==
  \E r \in Responses :
    /\ Classify(r) = "accept"
    /\ Sent(r)
    /\ result' = [translated_text |-> Some(r.content),
                  model_used |-> Some(ModelsSlice(max_attempts)[i + 1]),
                  attempts |-> attempts]
    /\ pc' = "returned"
    /\ UNCHANGED <<inputvars, i, attempts, pauses, warnings, ui, db>>

\* the rest of the try block after a response that is not returned
Continue(kind, warning) ==
  /\ pauses' = IF PausesAfter(kind, i, max_attempts)
               THEN Append(pauses, [after |-> i, secs |-> SleepSecs])
               ELSE pauses
  /\ warnings' = Append(warnings, warning)
  /\ i' = i + 1
  /\ pc' = "loop"
  /\ UNCHANGED <<inputvars, result, ui, db>>

\* 200 with content of stripped length <= 10
EmptyResponse ==
  \E r \in Responses :
    /\ Classify(r) = "empty"
    /\ Sent(r)
    /\ Continue("empty", "returned empty response")
    /\ UNCHANGED attempts

\* 200 whose JSON has no "choices" key: neither branch of the inner if runs
NoChoices ==
  \E r \in Responses :
    /\ Classify(r) = "nochoices"
    /\ Sent(r)
    /\ Continue("nochoices", "")
    /\ UNCHANGED attempts

\* status other than 200
HttpError ==
  \E r \in Responses :
    /\ Classify(r) = "http"
    /\ Sent(r)
    /\ Continue("http", IF max_attempts > 1 THEN error_msg(r.status) ELSE "")
    /\ UNCHANGED attempts

\* Timeout handler that does not append its own entry
Timeout_NoAppend ==
  \E r \in Responses :
    /\ Classify(r) = "timeout"
    /\ Sent(r)
    /\ UNCHANGED attempts
    /\ Continue("timeout", IF max_attempts > 1 THEN "timed out" ELSE "")

\* except requests.exceptions.Timeout
Timeout ==
  \E r \in Responses :
    /\ Classify(r) = "timeout"
    /\ Sent(r)
    /\ attempts' = Append(attempts, AttemptEntry(i, ModelsSlice(max_attempts)[i + 1], "Timeout"))
    /\ Continue("timeout", IF max_attempts > 1 THEN "timed out" ELSE "")

\* an exception other than Timeout: caught by `except Exception`; one that
\* no clause catches leaves smart_translate_humor and ends the script run
Error ==
  \E r \in Responses :
    /\ Classify(r) \in {"error", "uncaught"}
    /\ Sent(r)
    /\ IF Classify(r) = "error"
       THEN /\ attempts' = Append(attempts, AttemptEntry(i, ModelsSlice(max_attempts)[i + 1], "Error"))
            /\ Continue("error", IF max_attempts > 1 THEN "error" ELSE "")
       ELSE /\ pc' = "crashed"
            /\ UNCHANGED <<inputvars, i, attempts, pauses, warnings, result, ui, db>>

\* the row save_translation_to_db inserts
Row(text, culture, translated_text, model_used) ==
  [original_text |-> text, target_culture |-> culture,
   translated_text |-> translated_text, model_used |-> model_used]

\* save attempted outside the `if translated_text` block, on the checkbox alone
ShouldSave_CheckboxOnly(save, res) == save

\* `if save_translation and model_used`
ShouldSave(save, res) ==
  Truthy(res.translated_text) /\ save /\ Truthy(res.model_used)

\* The handler after smart_translate_humor returned: display, and save when
\* asked to; the insert succeeds (inserted), or the session has no client or
\* the insert raises and is reported.  The
\* script run ends here and its local variables go with it.
Finish ==
  /\ pc = "returned"
  /\ \E inserted \in BOOLEAN :
       db' = IF ShouldSave(save_translation, result) /\ inserted
             THEN Append(db, Row(input_text, target_culture,
                                 result.translated_text.val, result.model_used.val))
             ELSE db
  /\ ui' = IF Truthy(result.translated_text) THEN "adapted" ELSE "all_failed"
  /\ i' = 0
  /\ attempts' = <<>>
  /\ contacted' = <<>>
  /\ outcomes' = <<>>
  /\ pauses' = <<>>
  /\ warnings' = <<>>
  /\ result' = NoResult
  /\ pc' = "idle"
  /\ UNCHANGED inputvars

Next ==
  \/ ClickWarn
  \/ ClickTranslate
  \/ LoopNext
  \/ LoopExit
  \/ Accept
  \/ EmptyResponse
  \/ NoChoices
  \/ HttpError
  \/ Timeout
  \/ Error
  \/ Finish

Spec == Init /\ [][Next]_vars

\* every step of a call is eventually taken (the script runs to its end)
FairSpec == Spec /\ WF_vars(LoopNext \/ LoopExit \/ Accept \/ EmptyResponse \/ NoChoices \/ HttpError \/ Timeout \/ Error \/ Finish)

\* ================================================================== claims
\* Vocabulary of the claims, stated on the recorded responses.
IsAccept(r) ==
  r.raise = "none" /\ r.status = 200 /\ r.json = "ok" /\ Len(strip(r.content)) > MinLen
IsShort(r) ==
  r.raise = "none" /\ r.status = 200 /\ r.json = "ok" /\ Len(strip(r.content)) <= MinLen
IsRaise(r) ==
  r.raise # "none" \/ (r.status = 200 /\ r.json \in {"invalid", "emptychoices"})

\* the outcome a log entry carries
EntryTag(e) ==
  IF e.suffix = "Timeout" THEN "timeout"
  ELSE IF e.suffix = "Error" THEN "exception"
  ELSE "untagged"

PlainEntry(j) == [n |-> j, model_name |-> FREE_MODELS[j][2], suffix |-> ""]

\* the log the code builds for the first n contacted models: the attempt
\* entry of each, followed by a suffixed entry when its attempt raised
RECURSIVE ExpectedLog(_, _)
ExpectedLog(rs, n) ==
  IF n = 0 THEN <<>>
  ELSE ExpectedLog(rs, n - 1) \o <<PlainEntry(n)>> \o
       (IF IsRaise(rs[n])
        THEN << [n |-> n, model_name |-> FREE_MODELS[n][2],
                 suffix |-> IF rs[n].raise = "Timeout" THEN "Timeout" ELSE "Error"] >>
        ELSE <<>>)

\* the call goes on after the j-th contacted model
GoesOn(j) ==
  \/ j < Len(outcomes)
  \/ pc \in {"loop", "post"} /\ i = j
  \/ pc = "returned" /\ j = max_attempts /\ result.translated_text = None

\* C1: the models a request is sent to are a prefix of FREE_MODELS of length
\* at most max_attempts: priority order, at most k contacted, none twice.
C1_ContactedIsPrefix ==
  /\ Len(contacted) <= max_attempts
  /\ Len(contacted) <= Len(FREE_MODELS)
  /\ \A j \in 1..Len(contacted) : contacted[j] = FREE_MODELS[j]
  /\ \A a, b \in 1..Len(contacted) : a # b => contacted[a] # contacted[b]

C1_Witness ==
  pc = "returned" /\ max_attempts = 3 /\ Len(contacted) = 3 /\ result.model_used = None

C4_NeverShortText ==
  /\ (pc = "returned" /\ ~result.translated_text.isNone) =>
       /\ Len(outcomes) > 0
       /\ Len(strip(result.translated_text.val)) > MinLen
       /\ outcomes[Len(outcomes)].raise = "none"
       /\ outcomes[Len(outcomes)].status = 200
       /\ outcomes[Len(outcomes)].content = result.translated_text.val
       /\ result.model_used = Some(contacted[Len(outcomes)])
  /\ \A j \in 1..Len(outcomes) : IsShort(outcomes[j]) => GoesOn(j)

C4_Witness ==
  /\ pc = "returned" /\ ~result.translated_text.isNone /\ Len(outcomes) = 2
  /\ IsShort(outcomes[1]) /\ Len(outcomes[1].content) > MinLen
  /\ Len(result.translated_text.val) > Len(strip(result.translated_text.val))

SpecTag(r) ==
  IF IsAccept(r) THEN "success"
  ELSE IF IsShort(r) THEN "empty-response"
  ELSE IF r.raise = "Timeout" THEN "timeout"
  ELSE IF r.raise # "none" \/ r.status = 200 THEN "exception"
  ELSE IF r.status = 429 THEN "rate-limited"
  ELSE IF r.status = 503 THEN "overloaded"
  ELSE "http-error"

\* the outcome tags of the log entries of the j-th attempt, in order
TagsOf(j) ==
  LET es == SelectSeq(attempts, LAMBDA e : e.n = j)
  IN  [x \in 1..Len(es) |-> EntryTag(es[x])]

C7_SaveOnlyOnSuccess ==
  [][db' # db =>
       /\ pc = "returned"
       /\ ~result.model_used.isNone
       /\ ~result.translated_text.isNone
       /\ save_translation
       /\ db' = Append(db, Row(input_text, target_culture,
                               result.translated_text.val, result.model_used.val))]_vars

C7_Witness ==
  /\ Len(db) = 1 /\ ui = "adapted" /\ save_translation
  /\ \E j \in 1..Len(FREE_MODELS) : db[1].model_used = FREE_MODELS[j]

\* C8 (as claimed): when the joke or the culture is empty after trimming
\* (blank input included) the click stops in the caller: no call of
\* smart_translate_humor, no model contacted, nothing logged.
C8_BlankShortCircuits ==
  (Len(strip(input_text)) = 0 \/ Len(strip(target_culture)) = 0) =>
    /\ pc = "idle"
    /\ ui \in {"none", "fill_in_both"}
    /\ contacted = <<>>
    /\ attempts = <<>>

\* C9: no outcome of an attempt leaves smart_translate_humor as an exception;
\* every call returns, either with an accept or with (None, None, log) after
\* all permitted attempts.
C9_AlwaysReturns ==
  /\ [](pc # "crashed")
  /\ [](pc = "returned" =>
          \/ /\ ~result.model_used.isNone /\ ~result.translated_text.isNone
             /\ IsAccept(outcomes[Len(outcomes)])
          \/ /\ result.model_used = None /\ result.translated_text = None
             /\ Len(contacted) = max_attempts)
  /\ (pc = "loop" ~> pc = "returned")

C9_Witness ==
  /\ pc = "returned" /\ Len(outcomes) = 3
  /\ outcomes[1].json = "invalid" /\ outcomes[2].raise = "ConnectionError"
  /\ outcomes[3].json = "nochoices"

\* C10 (as claimed): between two consecutive attempts there is exactly one
\* pause of 2, whatever the earlier outcome; no pause follows the last
\* permitted attempt or an accept.
C10_PauseBetweenAttempts ==
  /\ \A j \in 1..(Len(contacted) - 1) :
       /\ Cardinality({p \in 1..Len(pauses) : pauses[p].after = j - 1}) = 1
       /\ \A p \in 1..Len(pauses) : pauses[p].secs = SleepSecs
  /\ \A p \in 1..Len(pauses) :
       /\ pauses[p].after < max_attempts - 1
       /\ pauses[p].after + 1 <= Len(outcomes)
       /\ ~IsAccept(outcomes[pauses[p].after + 1])

====
